---- MODULE Spec2Model ----
(***************************************************************************)
(* A model of the two scripts of latent-ad-qml:                            *)
(*   src/compute_expr_ent.py              the expressibility/entanglement  *)
(*                                        driver, its data loader and its  *)
(*                                        circuit constructors;            *)
(*   src/scripts/kernel_machines/test.py  the k-fold model tester.         *)
(* Quantum simulation, the triple_e estimators and the kernel machine are  *)
(* external libraries: they appear as the calls the scripts make to them.  *)
(***************************************************************************)
EXTENDS Integers, Sequences, FiniteSets, TLC

VARIABLES
    \* ---- compute_expr_ent.py ----
    args,            \* the dictionary get_arguments returns
    h5,              \* the HDF5 files on disk: path -> content
    pc,              \* position of main / of the handler it dispatched to
    circuit_list,    \* circuit_list_expr_ent of prepare_circs
    circuit_labels,  \* circuit_labels of prepare_circs
    data,            \* data of main
    i,               \* loop index of the handler (i / idx)
    expr,            \* the list expr of the current loop iteration
    val_ent,         \* val_ent of the current loop iteration
    df,              \* the DataFrame being built
    result,          \* df_results of main
    csv,             \* the CSV files written, in order
    log,             \* the calls made to the estimators and the writes, in order
    rng,             \* state of the process-wide numpy random generator
    err,             \* the exception main ended in, "" when none
    \* ---- circuit constructors applied on their own ----
    circ,            \* the constructor call under evaluation
    gates,           \* the gates appended to qc so far
    crep,            \* rep, the repetitions completed
    cpc,             \* position of the constructor
    \* ---- scripts/kernel_machines/test.py ----
    targs,           \* the dictionary get_arguments returns
    test_loader,     \* the test set data_processing.get_data returns
    perm,            \* the order shuffle_data draws
    reordered,       \* whether a task has finished before one submitted earlier
    tpc,             \* position of main
    test_features,   \* the shuffled test set
    sig_fold,        \* the signal folds
    bkg_fold,        \* the background folds
    model,           \* the loaded model
    futures,         \* the tasks submitted to the executor, in submission order
    tj,              \* position of the list comprehension collecting results
    score_sig,       \* score_sig
    score_bkg,       \* score_bkg
    files,           \* the .npy files written, in order
    plots,           \* the plots written, in order
    ncalls,          \* decision_function calls made by main itself
    terr             \* the exception main ended in, "" when none

driverVars == <<args, h5, pc, circuit_list, circuit_labels, data, i, expr,
                val_ent, df, result, csv, log, rng, err>>
circVars == <<circ, gates, crep, cpc>>
testVars == <<targs, test_loader, perm, reordered, tpc, test_features, sig_fold, bkg_fold, model,
              futures, tj, score_sig, score_bkg, files, plots, ncalls, terr>>
otherVars == <<circ, gates, crep, cpc, targs, test_loader, perm, reordered, tpc, test_features,
               sig_fold, bkg_fold, model, futures, tj, score_sig, score_bkg, files,
               plots, ncalls, terr>>

-----------------------------------------------------------------------------
(* Bounds of the model.                                                    *)
MaxQubits == 2
MaxShots == 1
MaxExp == 2
MaxPaths == 3
MaxRows == 3
MaxCols == 2
Den == 2
MaxN == 4
MaxReps == 3
MaxFolds == 3
MaxFoldLen == 2
MaxFailures == 1

-----------------------------------------------------------------------------
(* Small helpers.                                                          *)
Min(a, b) == IF a < b THEN a ELSE b

Range0(n) == [j \in 1..n |-> j - 1]

RangeStep2(stop) == [j \in 1..((stop + 1) \div 2) |-> 2 * (j - 1)]

Zip(s, t) == [j \in 1..Min(Len(s), Len(t)) |-> <<s[j], t[j]>>]

RECURSIVE SumSeq(_)
SumSeq(s) == IF s = <<>> THEN 0 ELSE Head(s) + SumSeq(Tail(s))

RECURSIVE Flatten(_)
Flatten(ss) == IF ss = <<>> THEN <<>> ELSE Head(ss) \o Flatten(Tail(ss))

-----------------------------------------------------------------------------
(* The circuit constructors: the gate sequence each one appends to qc.     *)
(* A rotation angle is pi/2, 0 or an element x[i] of the parameter vector. *)
HalfPi == [k |-> "halfpi", ix |-> 0]
Zero == [k |-> "zero", ix |-> 0]
X(idx) == [k |-> "x", ix |-> idx]

U(theta, phi, lam, qubit) ==
    [op |-> "u", theta |-> theta, phi |-> phi, lam |-> lam, q |-> qubit, t |-> qubit]

CX(control, target) ==
    [op |-> "cx", theta |-> Zero, phi |-> Zero, lam |-> Zero, q |-> control, t |-> target]

FirstLayerMut(nqubits) ==
    [j \in 1..nqubits |-> U(HalfPi, X(j - 1), X(j), j - 1)]

\* for feature, qubit in zip(range(0, nfeatures, 2), range(nqubits)):
\*     qc.u(np.pi / 2, x[feature], x[feature + 1], qubit)
FirstLayer(nqubits) ==
    LET fq == Zip(RangeStep2(2 * nqubits), Range0(nqubits))
    IN  [j \in 1..Len(fq) |-> U(HalfPi, X(fq[j][1]), X(fq[j][1] + 1), fq[j][2])]

\* for feature, qubit in zip(range(0, 2 * nqubits, 2), range(nqubits)):
\*     qc.u(x[feature], x[feature + 1], 0, qubit)
SecondLayer(nqubits) ==
    LET fq == Zip(RangeStep2(2 * nqubits), Range0(nqubits))
    IN  [j \in 1..Len(fq) |-> U(X(fq[j][1]), X(fq[j][1] + 1), Zero, fq[j][2])]

\* for i in range(nqubits): if i == nqubits - 1: break; qc.cx(i, i + 1)
ChainCX(nqubits) ==
    [j \in 1..(IF nqubits >= 1 THEN nqubits - 1 ELSE 0) |-> CX(j - 1, j)]

\* list(combinations(range(nqubits), 2)), in lexicographic order
RECURSIVE Combinations2From(_, _)
Combinations2From(a, nqubits) ==
    IF a >= nqubits - 1 THEN <<>>
    ELSE [j \in 1..(nqubits - 1 - a) |-> <<a, a + j>>] \o Combinations2From(a + 1, nqubits)

AllCX(nqubits) ==
    LET qpairs == Combinations2From(0, nqubits)
    IN  [j \in 1..Len(qpairs) |-> CX(qpairs[j][1], qpairs[j][2])]

RECURSIVE Repeat(_, _)
Repeat(body, reps) == IF reps <= 0 THEN <<>> ELSE body \o Repeat(body, reps - 1)

\* The body of "for rep in range(reps)" in each constructor.
NoEntRep(nqubits, type) ==
    FirstLayer(nqubits) \o (IF type = 0 THEN SecondLayer(nqubits) ELSE <<>>)

ChainRep(nqubits) == FirstLayer(nqubits) \o ChainCX(nqubits) \o SecondLayer(nqubits)

AllRep(nqubits) == FirstLayer(nqubits) \o AllCX(nqubits) \o SecondLayer(nqubits)

u_dense_encoding_no_ent(nqubits, reps, type) == Repeat(NoEntRep(nqubits, type), reps)

u_dense_encoding(nqubits, reps) == Repeat(ChainRep(nqubits), reps)

u_dense_encoding_all(nqubits, reps) == Repeat(AllRep(nqubits), reps)

\* A closure of the driver: which constructor it calls, with which arguments.
Closure(kind, nqubits, reps, type) ==
    [kind |-> kind, nqubits |-> nqubits, reps |-> reps, type |-> type]

\* Calling a closure on a parameter vector x.
Call(c) ==
    CASE c.kind = "no_ent" -> u_dense_encoding_no_ent(c.nqubits, c.reps, c.type)
      [] c.kind = "chain"  -> u_dense_encoding(c.nqubits, c.reps)
      [] c.kind = "all"    -> u_dense_encoding_all(c.nqubits, c.reps)

-----------------------------------------------------------------------------
(* Numbers of the data loader.  A dataset element is a polynomial in pi    *)
(* with rational coefficients: the sequence <<c0, c1, ...>> stands for     *)
(* (c0 + c1*pi + c2*pi^2 + ...) / Den.  A raw element x = k/Den is <<k>>.  *)
Coef(p, j) == IF j <= Len(p) THEN p[j] ELSE 0

PolyAdd(p, q) ==
    [j \in 1..(IF Len(p) > Len(q) THEN Len(p) ELSE Len(q)) |-> Coef(p, j) + Coef(q, j)]

NpPi == <<0, Den>>

\* dataset *= np.pi
MulPi(p) == <<0>> \o p

\* dataset += np.pi
AddPi(p) == PolyAdd(p, NpPi)

RescaleTwice(x) == AddPi(MulPi(AddPi(MulPi(x))))

\* the loop body of get_data applied to one element
Rescale(x) == AddPi(MulPi(x))

\* np.reshape(dataset, (len(dataset), -1)): every leading-axis entry flattened
Reshape2D(arr) == [n \in 1..Len(arr) |-> Flatten(arr[n])]

RescaleDataset(d2) == [n \in 1..Len(d2) |-> [c \in 1..Len(d2[n]) |-> Rescale(d2[n][c])]]

\* get_data(data_path): the value returned, or the exception raised.
get_data(data_path, disk) ==
    IF ~data_path.given
    THEN [exc |-> "TypeError: 'NoneType' object is not iterable", kind |-> "none", val |-> <<>>]
    ELSE IF \E j \in 1..Len(data_path.paths) : disk[data_path.paths[j]].st = "missing"
    THEN [exc |-> "OSError", kind |-> "none", val |-> <<>>]
    ELSE IF \E j \in 1..Len(data_path.paths) : disk[data_path.paths[j]].st = "nokey"
    THEN [exc |-> "TypeError: len() of unsized object", kind |-> "none", val |-> <<>>]
    ELSE LET loaded == [j \in 1..Len(data_path.paths) |->
                           RescaleDataset(Reshape2D(disk[data_path.paths[j]].arr))]
         IN  IF Len(loaded) = 1
             THEN [exc |-> "", kind |-> "array", val |-> loaded[1]]
             ELSE [exc |-> "", kind |-> "list", val |-> loaded]

NoData == [exc |-> "", kind |-> "none", val |-> <<>>]

-----------------------------------------------------------------------------
(* Statistics.  np.mean and np.std of a list of numbers, as fractions:     *)
(* mean = num/den; std^2 = num/den.  Both are NaN on an empty list.        *)
NaN == [nan |-> TRUE, num |-> 0, den |-> 0]

NpMean(xs) ==
    IF xs = <<>> THEN NaN ELSE [nan |-> FALSE, num |-> SumSeq(xs), den |-> Len(xs)]

NpStd(xs) ==
    IF xs = <<>> THEN NaN
    ELSE LET n == Len(xs)
             s == SumSeq(xs)
         IN  [nan |-> FALSE,
              num |-> SumSeq([j \in 1..n |-> (n * xs[j] - s) * (n * xs[j] - s)]),
              den |-> n * n * n]

\* np.array(val_ent) is 0-dimensional: its mean is the value, its std is 0.
NpMeanScalar(v) == [nan |-> FALSE, num |-> v, den |-> 1]
NpStdScalar(v) == [nan |-> FALSE, num |-> 0, den |-> 1]

-----------------------------------------------------------------------------
(* The triple_e estimators.  np.random.seed(42) makes their draws a        *)
(* function of the calls made so far; rng counts those calls.              *)
DataWeight(d) == IF d.kind = "none" THEN 0 ELSE 1 + Len(d.val)

expressibility(circuit, n_params, n_shots, d, seed) ==
    (Len(Call(circuit)) + n_params + 3 * n_shots + seed * seed + DataWeight(d)) % 5

entanglement_capability(circuit, n_params, seed) ==
    1 + ((Len(Call(circuit)) + n_params + seed) % 3)

-----------------------------------------------------------------------------
(* The inputs of the driver: command lines and files.                      *)
PathIds == 1..MaxPaths

\* The raw values k/Den met in the files: below 0, inside [0, 1), 1 and above.
KAt(m) == (m % (Den + 3)) - 1

\* A latent_space array of shape (rows, a, b).
Dataset(rows, a, b, k0) ==
    [n \in 1..rows |-> [x \in 1..a |-> [y \in 1..b |->
        <<KAt(k0 + ((n - 1) * a + (x - 1)) * b + (y - 1))>>]]]

\* The file of path j holds rows events of latent shape (j, cols).
FileSystem(rows, cols, k0) ==
    [j \in PathIds |-> [st |-> "ok", arr |-> Dataset(rows, j, cols, k0 + j)]]

BrokenFileSystems ==
    { [FileSystem(1, 1, 0) EXCEPT ![j] = [st |-> how, arr |-> <<>>]] :
        j \in PathIds, how \in {"missing", "nokey"} }

NoPath == [given |-> FALSE, paths |-> <<>>]
PathList(m) == [given |-> TRUE, paths |-> [j \in 1..m |-> j]]

ComputeChoices == {"expr_ent_vs_circ", "expr_vs_qubits", "var_kernel_vs_circ"}

Args(nq, ns, ne, cmp, dd, dp) ==
    [n_qubits |-> nq, n_shots |-> ns, n_exp |-> ne, out_path |-> "out",
     data_path |-> dp, compute |-> cmp, data_dependent |-> dd]

None == [none |-> TRUE, table |-> <<>>]
Table(t) == [none |-> FALSE, table |-> t]

-----------------------------------------------------------------------------
(* prepare_circs                                                           *)
\* list.insert(index, x)
ListInsert(s, index, x) ==
    LET at == IF index < 0
              THEN (IF Len(s) + index < 0 THEN 0 ELSE Len(s) + index)
              ELSE Min(index, Len(s))
    IN  SubSeq(s, 1, at) \o <<x>> \o SubSeq(s, at + 1, Len(s))

CircuitLabels == <<"NE_0", "NE_1", "L=1", "L=2", "L=3", "L=4", "L=5", "L=6", "FE">>

prepare_circs(a) ==
    LET l0 == [r \in 1..6 |-> Closure("chain", a.n_qubits, r, 0)]
        l1 == ListInsert(l0, 0, Closure("no_ent", a.n_qubits, 1, 1))
        l2 == ListInsert(l1, 0, Closure("no_ent", a.n_qubits, 1, 0))
        l3 == ListInsert(l2, -1, Closure("all", a.n_qubits, 3, 0))
    IN  <<l3, CircuitLabels>>

-----------------------------------------------------------------------------
(* main, up to the dispatch                                                *)
PrepareCircs ==
    /\ pc = "start"
    /\ circuit_list' = prepare_circs(args)[1]
    /\ circuit_labels' = prepare_circs(args)[2]
    /\ pc' = "load"
    /\ UNCHANGED <<args, h5, data, i, expr, val_ent, df, result, csv, log, rng, err>>

LoadData ==
    /\ pc = "load"
    /\ LET got == IF args.data_dependent THEN get_data(args.data_path, h5) ELSE NoData
       IN  IF got.exc # ""
           THEN /\ err' = got.exc
                /\ pc' = "raised"
                /\ data' = data
           ELSE /\ data' = [kind |-> got.kind, val |-> got.val]
                /\ pc' = "dispatch"
                /\ err' = err
    /\ UNCHANGED <<args, h5, circuit_list, circuit_labels, i, expr, val_ent, df,
                   result, csv, log, rng>>

SwitcherMut(compute) ==
    CASE compute = "expr_ent_vs_circ" -> "compute_expr_ent_vs_circuit"
      [] OTHER -> "none"

\* switcher.get(args["compute"], lambda: None)
Switcher(compute) ==
    CASE compute = "expr_ent_vs_circ" -> "compute_expr_ent_vs_circuit"
      [] compute = "expr_vs_qubits" -> "expr_vs_nqubits"
      [] OTHER -> "none"

EnterHandler(at) ==
    /\ df' = <<>>
    /\ i' = 0
    /\ pc' = at
    /\ UNCHANGED <<args, h5, circuit_list, circuit_labels, data, expr, val_ent,
                   result, csv, log, rng, err>>

DispatchCirc ==
    /\ pc = "dispatch"
    /\ Switcher(args.compute) = "compute_expr_ent_vs_circuit"
    /\ EnterHandler("circ_head")

DispatchQubits ==
    /\ pc = "dispatch"
    /\ Switcher(args.compute) = "expr_vs_nqubits"
    /\ EnterHandler("nq_head")

DispatchNone ==
    /\ pc = "dispatch"
    /\ Switcher(args.compute) = "none"
    /\ result' = None
    /\ pc' = "returned"
    /\ UNCHANGED <<args, h5, circuit_list, circuit_labels, data, i, expr, val_ent,
                   df, csv, log, rng, err>>

\* if df_results is None: raise TypeError(...)
MainCheck ==
    /\ pc = "returned"
    /\ IF result.none
       THEN err' = "TypeError: Given computation run does not exist!" /\ pc' = "raised"
       ELSE err' = err /\ pc' = "done"
    /\ UNCHANGED <<args, h5, circuit_list, circuit_labels, data, i, expr, val_ent,
                   df, result, csv, log, rng>>

-----------------------------------------------------------------------------
(* compute_expr_ent_vs_circuit                                             *)
NParamsMut(n) == n

\* n_params = 2*args["n_qubits"]  /  n_params = 2*n
NParams(n) == 2 * n

IsNoEntLabelMut(label) == label = "NE_0"

\* circuit_labels[i] in ['NE_0', 'NE_1']
IsNoEntLabel(label) == label \in {"NE_0", "NE_1"}

ExprLoopContinuesMut(done, n_exp) == done <= n_exp

\* for _ in range(args["n_exp"])
ExprLoopContinues(done, n_exp) == done < n_exp

DfAppendMut(frame, d) == <<d>>

\* df = df.append(d, ignore_index=True)
DfAppend(frame, d) == Append(frame, d)

EntCall(at, c, n_params, val) ==
    [op |-> "ent", i |-> at, circuit |-> c, n_params |-> n_params, n_shots |-> 10,
     data |-> NoData, val |-> val]

ExprCall(at, c, n_params, n_shots, d, val) ==
    [op |-> "expr", i |-> at, circuit |-> c, n_params |-> n_params,
     n_shots |-> n_shots, data |-> d, val |-> val]

RowEvent(at) == [op |-> "row", i |-> at]

CsvEvent == [op |-> "csv", i |-> 0]

\* for i, circuit in enumerate(circuits): ... val_ent = ...
CircHead ==
    /\ pc = "circ_head"
    /\ IF i < Len(circuit_list)
       THEN /\ expr' = <<>>
            /\ pc' = "circ_expr"
            /\ IF IsNoEntLabel(circuit_labels[i + 1])
               THEN /\ val_ent' = 0
                    /\ UNCHANGED <<log, rng>>
               ELSE LET v == entanglement_capability(circuit_list[i + 1],
                                                     NParams(args.n_qubits), rng)
                    IN  /\ val_ent' = v
                        /\ log' = Append(log, EntCall(i, circuit_list[i + 1],
                                                      NParams(args.n_qubits), v))
                        /\ rng' = rng + 1
       ELSE /\ pc' = "circ_csv"
            /\ UNCHANGED <<expr, val_ent, log, rng>>
    /\ UNCHANGED <<args, h5, circuit_list, circuit_labels, data, i, df, result, csv, err>>

\* val_ex = expressibility(circuit, n_params, ...); expr.append(val_ex)
CircExpr ==
    /\ pc = "circ_expr"
    /\ ExprLoopContinues(Len(expr), args.n_exp)
    /\ LET v == expressibility(circuit_list[i + 1], NParams(args.n_qubits),
                               args.n_shots, data, rng)
       IN  /\ expr' = Append(expr, v)
           /\ log' = Append(log, ExprCall(i, circuit_list[i + 1], NParams(args.n_qubits),
                                          args.n_shots, data, v))
    /\ rng' = rng + 1
    /\ UNCHANGED <<args, h5, pc, circuit_list, circuit_labels, data, i, val_ent, df,
                   result, csv, err>>

CircRow ==
    /\ pc = "circ_expr"
    /\ ~ExprLoopContinues(Len(expr), args.n_exp)
    /\ df' = DfAppend(df, [circuit |-> circuit_labels[i + 1],
                           expr |-> NpMean(expr), expr_err |-> NpStd(expr),
                           ent |-> NpMeanScalar(val_ent), ent_err |-> NpStdScalar(val_ent)])
    /\ log' = Append(log, RowEvent(i))
    /\ i' = i + 1
    /\ pc' = "circ_head"
    /\ UNCHANGED <<args, h5, circuit_list, circuit_labels, data, expr, val_ent,
                   result, csv, rng, err>>

\* df.to_csv(f"{args['out_path']}.csv"); return df
WriteCsv(at) ==
    /\ pc = at
    /\ csv' = Append(csv, [path |-> <<args.out_path, ".csv">>, table |-> df])
    /\ log' = Append(log, CsvEvent)
    /\ result' = Table(df)
    /\ pc' = "returned"
    /\ UNCHANGED <<args, h5, circuit_list, circuit_labels, data, i, expr, val_ent,
                   df, rng, err>>

CircCsv == WriteCsv("circ_csv")

-----------------------------------------------------------------------------
(* expr_vs_nqubits                                                         *)
NQubitsSweepMut(d) == [j \in 1..9 |-> j]

\* n_qubits = range(1, 10); if data is not None: n_qubits = [4, 8, 16]
NQubitsSweep(d) == IF d.kind # "none" THEN <<4, 8, 16>> ELSE [j \in 1..9 |-> j]

NqHead ==
    /\ pc = "nq_head"
    /\ IF i < Len(NQubitsSweep(data))
       THEN expr' = <<>> /\ pc' = "nq_expr"
       ELSE expr' = expr /\ pc' = "nq_csv"
    /\ UNCHANGED <<args, h5, circuit_list, circuit_labels, data, i, val_ent, df,
                   result, csv, log, rng, err>>

\* expressibility(lambda x: u_dense_encoding(x, nqubits=n, reps=rep), ...,
\*                data=None if data is None else data[idx])
NqExpr ==
    /\ pc = "nq_expr"
    /\ ExprLoopContinues(Len(expr), args.n_exp)
    /\ LET n == NQubitsSweep(data)[i + 1]
           c == Closure("chain", n, 3, 0)
       IN  IF data.kind # "none" /\ i + 1 > Len(data.val)
           THEN /\ err' = "IndexError"
                /\ pc' = "raised"
                /\ UNCHANGED <<expr, log, rng>>
           ELSE LET d == IF data.kind = "none" THEN [kind |-> "none", val |-> <<>>]
                         ELSE [kind |-> "item", val |-> data.val[i + 1]]
                    v == expressibility(c, NParams(n), args.n_shots, d, rng)
                IN  /\ expr' = Append(expr, v)
                    /\ log' = Append(log, ExprCall(i, c, NParams(n), args.n_shots, d, v))
                    /\ rng' = rng + 1
                    /\ UNCHANGED <<err, pc>>
    /\ UNCHANGED <<args, h5, circuit_list, circuit_labels, data, i, val_ent, df,
                   result, csv>>

NqRow ==
    /\ pc = "nq_expr"
    /\ ~ExprLoopContinues(Len(expr), args.n_exp)
    /\ df' = DfAppend(df, [expr |-> NpMean(expr), expr_err |-> NpStd(expr)])
    /\ log' = Append(log, RowEvent(i))
    /\ i' = i + 1
    /\ pc' = "nq_head"
    /\ UNCHANGED <<args, h5, circuit_list, circuit_labels, data, expr, val_ent,
                   result, csv, rng, err>>

NqCsv == WriteCsv("nq_csv")

-----------------------------------------------------------------------------
(* The driver script.                                                      *)
DriverStart ==
    /\ pc = "start"
    /\ circuit_list = <<>>
    /\ circuit_labels = <<>>
    /\ data = [kind |-> "none", val |-> <<>>]
    /\ i = 0
    /\ expr = <<>>
    /\ val_ent = 0
    /\ df = <<>>
    /\ result = None
    /\ csv = <<>>
    /\ log = <<>>
    /\ rng = 0
    /\ err = ""

\* The model tester before it is started.
TestStart ==
    /\ tpc = "start"
    /\ reordered = FALSE
    /\ test_features = <<>>
    /\ sig_fold = <<>>
    /\ bkg_fold = <<>>
    /\ model = [backend_config |-> "", quantum_instance |-> "", backend |-> "",
                quantum_kernel |-> "", kernel_matrix_test |-> <<>>, one_class |-> FALSE]
    /\ futures = <<>>
    /\ tj = 0
    /\ score_sig = <<>>
    /\ score_bkg = <<>>
    /\ files = <<>>
    /\ plots = <<>>
    /\ ncalls = 0
    /\ terr = ""

TestIdle ==
    /\ targs = [kfolds |-> 1, mod_quantum_instance |-> FALSE, config_file |-> "none",
                ntest |-> 720, model |-> "m/", one_class |-> FALSE]
    /\ test_loader = <<<<>>, <<>>>>
    /\ perm = "same"
    /\ TestStart

CircIdle ==
    /\ circ = Closure("chain", 1, 1, 0)
    /\ gates = <<>>
    /\ crep = 0
    /\ cpc = "idle"

Init ==
    /\ \E nq \in 1..MaxQubits, ns \in 1..MaxShots, ne \in -1..MaxExp,
          cmp \in ComputeChoices \cup {"other"} :
          \/ /\ args \in {Args(nq, ns, ne, cmp, FALSE, dp) : dp \in {NoPath, PathList(1)}}
             /\ h5 = FileSystem(1, 1, 0)
          \/ /\ args \in {Args(nq, ns, ne, cmp, TRUE, dp) :
                             dp \in {NoPath} \cup {PathList(m) : m \in PathIds}}
             /\ h5 \in {FileSystem(r, 1, 0) : r \in 1..MaxRows} \cup BrokenFileSystems
    /\ DriverStart
    /\ CircIdle
    /\ TestIdle

Next ==
    \/ (PrepareCircs /\ UNCHANGED otherVars)
    \/ (LoadData /\ UNCHANGED otherVars)
    \/ (DispatchCirc /\ UNCHANGED otherVars)
    \/ (DispatchQubits /\ UNCHANGED otherVars)
    \/ (DispatchNone /\ UNCHANGED otherVars)
    \/ (CircHead /\ UNCHANGED otherVars)
    \/ (CircExpr /\ UNCHANGED otherVars)
    \/ (CircRow /\ UNCHANGED otherVars)
    \/ (CircCsv /\ UNCHANGED otherVars)
    \/ (NqHead /\ UNCHANGED otherVars)
    \/ (NqExpr /\ UNCHANGED otherVars)
    \/ (NqRow /\ UNCHANGED otherVars)
    \/ (NqCsv /\ UNCHANGED otherVars)
    \/ (MainCheck /\ UNCHANGED otherVars)

vars == <<args, h5, pc, circuit_list, circuit_labels, data, i, expr, val_ent, df,
          result, csv, log, rng, err, circ, gates, crep, cpc,
          targs, test_loader, perm, reordered, tpc, test_features, sig_fold, bkg_fold, model,
          futures, tj, score_sig, score_bkg, files, plots, ncalls, terr>>

Spec == Init /\ [][Next]_vars

-----------------------------------------------------------------------------
(* A circuit constructor called on its own: qc grows by one repetition per *)
(* pass of "for rep in range(reps)".                                       *)
RepOf(c) ==
    CASE c.kind = "no_ent" -> NoEntRep(c.nqubits, c.type)
      [] c.kind = "chain"  -> ChainRep(c.nqubits)
      [] c.kind = "all"    -> AllRep(c.nqubits)

CircRep ==
    /\ cpc = "loop"
    /\ crep < circ.reps
    /\ gates' = gates \o RepOf(circ)
    /\ crep' = crep + 1
    /\ UNCHANGED <<circ, cpc>>

\* return Statevector.from_instruction(qc)
CircReturn ==
    /\ cpc = "loop"
    /\ ~(crep < circ.reps)
    /\ cpc' = "returned"
    /\ UNCHANGED <<circ, gates, crep>>

DriverIdle ==
    /\ args = Args(1, 1, 0, "expr_ent_vs_circ", FALSE, NoPath)
    /\ h5 = FileSystem(1, 1, 0)
    /\ DriverStart

ConstructorCalls ==
    {Closure("no_ent", n, r, ty) : n \in 1..MaxN, r \in 1..MaxReps, ty \in 0..2}
    \cup {Closure(kd, n, r, 0) : kd \in {"chain", "all"}, n \in 1..MaxN, r \in 1..MaxReps}

InitCirc ==
    /\ DriverIdle
    /\ TestIdle
    /\ circ \in ConstructorCalls
    /\ gates = <<>>
    /\ crep = 0
    /\ cpc = "loop"

NextCirc ==
    \/ (CircRep /\ UNCHANGED driverVars /\ UNCHANGED testVars)
    \/ (CircReturn /\ UNCHANGED driverVars /\ UNCHANGED testVars)

SpecCirc == InitCirc /\ [][NextCirc]_vars

-----------------------------------------------------------------------------
(* The driver started with --data_dependent on files of every shape and    *)
(* content of the bounds, followed up to the end of the data loading.      *)
InitData ==
    /\ \E m \in PathIds, cmp \in ComputeChoices :
          args = Args(1, 1, 1, cmp, TRUE, PathList(m))
    /\ h5 \in {FileSystem(r, c, k0) : r \in 1..MaxRows, c \in 1..MaxCols, k0 \in 0..(Den + 2)}
    /\ DriverStart
    /\ CircIdle
    /\ TestIdle

NextData ==
    \/ (PrepareCircs /\ UNCHANGED otherVars)
    \/ (LoadData /\ UNCHANGED otherVars)

SpecData == InitData /\ [][NextData]_vars

-----------------------------------------------------------------------------
(* scripts/kernel_machines/test.py: the inputs.                            *)
(* A test sample is a number; signal samples carry label 1, background 0.  *)
TestLoader(nsig, nbkg) ==
    << [j \in 1..(nsig + nbkg) |-> j],
       [j \in 1..(nsig + nbkg) |-> IF j <= nsig THEN 1 ELSE 0] >>

Reverse(s) == [j \in 1..Len(s) |-> s[Len(s) + 1 - j]]

\* data_processing.shuffle_data: the features in the order drawn.
shuffle_data(features, order) == IF order = "reversed" THEN Reverse(features) ELSE features

LabelOf(loader, sample) ==
    loader[2][CHOOSE j \in 1..Len(loader[1]) : loader[1][j] = sample]

\* data_processing.get_kfold_data: the samples of one class, in the order
\* given, cut into kfolds chunks of equal length.
Chunks(s, kfolds) ==
    LET size == Len(s) \div kfolds
    IN  [f \in 1..kfolds |-> SubSeq(s, (f - 1) * size + 1, f * size)]

get_kfold_data(loader, features, kfolds) ==
    << Chunks(SelectSeq(features, LAMBDA x : LabelOf(loader, x) = 1), kfolds),
       Chunks(SelectSeq(features, LAMBDA x : LabelOf(loader, x) = 0), kfolds) >>

\* model.decision_function: one score per sample.
ScoreOf(sample) == 3 * sample - 10

decision_function(samples) == [j \in 1..Len(samples) |-> ScoreOf(samples[j])]

\* get_scores(model, data), the task a worker runs
get_scores(samples) == decision_function(samples)

\* the kernel matrix decision_function leaves in model._kernel_matrix_test
KernelMatrix(samples) == [j \in 1..Len(samples) |-> <<"k", samples[j]>>]

TArgs(k, mqi, cf, oc) ==
    [kfolds |-> k, mod_quantum_instance |-> mqi, config_file |-> cf,
     ntest |-> 720, model |-> "m/", one_class |-> oc]

\* util.load_model(output_path + "model")
LoadedModel(oc) ==
    [backend_config |-> "trained", quantum_instance |-> "trained", backend |-> "trained",
     quantum_kernel |-> "trained", kernel_matrix_test |-> <<>>, one_class |-> oc]

-----------------------------------------------------------------------------
(* scripts/kernel_machines/test.py: main                                   *)
\* lines 50-64: the test set, the folds, the model, the IBMQ configuration
Setup ==
    /\ tpc = "start"
    /\ test_features' = shuffle_data(test_loader[1], perm)
    /\ sig_fold' = get_kfold_data(test_loader, shuffle_data(test_loader[1], perm),
                                  targs.kfolds)[1]
    /\ bkg_fold' = get_kfold_data(test_loader, shuffle_data(test_loader[1], perm),
                                  targs.kfolds)[2]
    /\ model' = LoadedModel(targs.one_class)
    /\ IF targs.config_file = "bad"
       THEN tpc' = "raised" /\ terr' = "config file"
       ELSE tpc' = "score" /\ terr' = terr
    /\ UNCHANGED <<targs, test_loader, perm, reordered, futures, tj, score_sig, score_bkg, files,
                   plots, ncalls>>

ShouldReconfigureMut(a) == TRUE

\* if args["mod_quantum_instance"]:
ShouldReconfigure(a) == a.mod_quantum_instance

Reconfigured(m) ==
    [m EXCEPT !.backend_config = "hardware", !.quantum_instance = "ibmq_toronto",
              !.backend = "ibmq_toronto", !.quantum_kernel = "hardware"]

ScoresFile(a) == <<"scores_n", a.ntest, "_k", a.kfolds, ".npy">>
SigScoresFile(a) == <<"sig_scores_n", a.ntest, "_k", a.kfolds, ".npy">>
BkgScoresFile(a) == <<"bkg_scores_n", a.ntest, "_k", a.kfolds, ".npy">>
KernelFile == <<"kernel_matrix_test.npy">>

Saved(name, content) == [name |-> <<targs.model>> \o name, content |-> content]

\* lines 69-91: one fold, scored by main itself
SingleFold ==
    /\ tpc = "score"
    /\ targs.kfolds = 1
    /\ ncalls' = ncalls + 1
    /\ \E ok \in BOOLEAN :
          LET m1 == IF ShouldReconfigure(targs) THEN Reconfigured(model) ELSE model
          IN  IF ok
              THEN /\ model' = [m1 EXCEPT !.kernel_matrix_test = KernelMatrix(test_features)]
                   /\ files' = files \o
                         << Saved(ScoresFile(targs), decision_function(test_features)),
                            Saved(KernelFile, KernelMatrix(test_features)) >>
                   /\ tpc' = "done"
                   /\ terr' = terr
              ELSE /\ model' = m1
                   /\ files' = files
                   /\ tpc' = "raised"
                   /\ terr' = "decision_function"
    /\ UNCHANGED <<targs, test_loader, perm, reordered, test_features, sig_fold, bkg_fold, futures,
                   tj, score_sig, score_bkg, plots>>

\* A future: its task, its state, its result and how often a worker ran it.
Task(samples) == [data |-> samples, status |-> "pending", value |-> <<>>, runs |-> 0]

\* sig_workers = [executor.submit(get_scores, model, fold) for fold in sig_fold]
SubmitSig ==
    /\ tpc = "score"
    /\ targs.kfolds # 1
    /\ futures' = futures \o [f \in 1..Len(sig_fold) |-> Task(sig_fold[f])]
    /\ tpc' = "submit_bkg"
    /\ UNCHANGED <<targs, test_loader, perm, reordered, test_features, sig_fold, bkg_fold, model,
                   tj, score_sig, score_bkg, files, plots, ncalls, terr>>

\* bkg_workers = [executor.submit(get_scores, model, fold) for fold in bkg_fold]
SubmitBkg ==
    /\ tpc = "submit_bkg"
    /\ futures' = futures \o [f \in 1..Len(bkg_fold) |-> Task(bkg_fold[f])]
    /\ tpc' = "collect_sig"
    /\ tj' = 0
    /\ UNCHANGED <<targs, test_loader, perm, reordered, test_features, sig_fold, bkg_fold, model,
                   score_sig, score_bkg, files, plots, ncalls, terr>>

Running == {t \in 1..Len(futures) : futures[t].status = "running"}
Pending == {t \in 1..Len(futures) : futures[t].status = "pending"}
Failed == {t \in 1..Len(futures) : futures[t].status = "failed"}
Finished == {t \in 1..Len(futures) : futures[t].status \in {"done", "failed"}}

Overtakes(t) == \E u \in 1..(t - 1) : u \notin Finished

\* A worker process takes the oldest pending task.  The pool has as many
\* processes as the host has processors: any number of tasks may be running.
WorkerStart(t) ==
    /\ t \in Pending
    /\ \A u \in Pending : t <= u
    /\ futures' = [futures EXCEPT ![t].status = "running", ![t].runs = @ + 1]
    /\ UNCHANGED <<targs, test_loader, perm, reordered, tpc, test_features, sig_fold, bkg_fold,
                   model, tj, score_sig, score_bkg, files, plots, ncalls, terr>>

\* the worker returns the scores of its fold, or its call raises
WorkerFinish(t) ==
    /\ t \in Running
    /\ reordered' = (reordered \/ Overtakes(t))
    /\ \/ futures' = [futures EXCEPT ![t].status = "done",
                                     ![t].value = get_scores(futures[t].data)]
       \/ /\ Cardinality(Failed) < MaxFailures
          /\ futures' = [futures EXCEPT ![t].status = "failed"]
    /\ UNCHANGED <<targs, test_loader, perm, tpc, test_features, sig_fold, bkg_fold,
                   model, tj, score_sig, score_bkg, files, plots, ncalls, terr>>

FutureResultMut(f) == [raised |-> FALSE, value |-> f.value]

\* worker.result(), once the future is finished
FutureResult(f) == [raised |-> f.status = "failed", value |-> f.value]

\* sig_workers[j] and bkg_workers[j] among the futures submitted
SigWorker(j) == j

BkgWorkerMut(j) == j

BkgWorker(j) == Len(sig_fold) + j

\* score_sig = np.array([worker.result() for worker in sig_workers])
CollectSig ==
    /\ tpc = "collect_sig"
    /\ IF tj < Len(sig_fold)
       THEN /\ SigWorker(tj + 1) \in Finished
            /\ LET r == FutureResult(futures[SigWorker(tj + 1)])
               IN  IF r.raised
                   THEN /\ tpc' = "exit_raising"
                        /\ UNCHANGED <<tj, score_sig>>
                   ELSE /\ score_sig' = Append(score_sig, r.value)
                        /\ tj' = tj + 1
                        /\ tpc' = tpc
       ELSE /\ tpc' = "collect_bkg"
            /\ tj' = 0
            /\ score_sig' = score_sig
    /\ UNCHANGED <<targs, test_loader, perm, reordered, test_features, sig_fold, bkg_fold, model,
                   futures, score_bkg, files, plots, ncalls, terr>>

\* score_bkg = np.array([worker.result() for worker in bkg_workers])
CollectBkg ==
    /\ tpc = "collect_bkg"
    /\ IF tj < Len(bkg_fold)
       THEN /\ BkgWorker(tj + 1) \in Finished
            /\ LET r == FutureResult(futures[BkgWorker(tj + 1)])
               IN  IF r.raised
                   THEN /\ tpc' = "exit_raising"
                        /\ UNCHANGED <<tj, score_bkg>>
                   ELSE /\ score_bkg' = Append(score_bkg, r.value)
                        /\ tj' = tj + 1
                        /\ tpc' = tpc
       ELSE /\ tpc' = "exit"
            /\ tj' = 0
            /\ score_bkg' = score_bkg
    /\ UNCHANGED <<targs, test_loader, perm, reordered, test_features, sig_fold, bkg_fold, model,
                   futures, score_sig, files, plots, ncalls, terr>>

\* leaving "with ProcessPoolExecutor() as executor": shutdown(wait=True)
PoolExit ==
    /\ tpc \in {"exit", "exit_raising"}
    /\ Finished = 1..Len(futures)
    /\ IF tpc = "exit_raising"
       THEN tpc' = "raised" /\ terr' = "get_scores"
       ELSE tpc' = "persist" /\ terr' = terr
    /\ UNCHANGED <<targs, test_loader, perm, reordered, test_features, sig_fold, bkg_fold, model,
                   futures, tj, score_sig, score_bkg, files, plots, ncalls>>

NpConcatenateMut(a, b) == b \o a

\* np.concatenate((a, b))
NpConcatenate(a, b) == a \o b

\* lines 100-121: scores_all, the saves and the plot
Persist ==
    /\ tpc = "persist"
    /\ files' = files \o
          << Saved(SigScoresFile(targs), score_sig), Saved(BkgScoresFile(targs), score_bkg) >>
          \o (IF model.one_class THEN <<Saved(KernelFile, model.kernel_matrix_test)>>
              ELSE <<>>)
    /\ plots' = Append(plots,
          [scores_all |-> NpConcatenate(Flatten(score_sig), Flatten(score_bkg)),
           ordered_labels |-> test_loader[2]])
    /\ tpc' = "done"
    /\ UNCHANGED <<targs, test_loader, perm, reordered, test_features, sig_fold, bkg_fold, model,
                   futures, tj, score_sig, score_bkg, ncalls, terr>>

\* The command lines and test sets of the bounds.  The backend is
\* reconfigured for hardware runs, which compute one fold only (docstring of
\* main): --mod_quantum_instance comes with --kfolds 1.  Each class of the
\* test set divides into kfolds folds of equal length.
InitTest ==
    /\ \E k \in 1..MaxFolds, len \in 1..MaxFoldLen :
          /\ targs \in {TArgs(k, mqi, cf, oc) :
                           mqi \in (IF k = 1 THEN BOOLEAN ELSE {FALSE}),
                           cf \in {"none", "ok", "bad"}, oc \in BOOLEAN}
          /\ test_loader = TestLoader(k * len, k * len)
    /\ perm \in {"same", "reversed"}
    /\ TestStart
    /\ DriverIdle
    /\ CircIdle

NextTest ==
    \/ (Setup /\ UNCHANGED driverVars /\ UNCHANGED circVars)
    \/ (SingleFold /\ UNCHANGED driverVars /\ UNCHANGED circVars)
    \/ (SubmitSig /\ UNCHANGED driverVars /\ UNCHANGED circVars)
    \/ (SubmitBkg /\ UNCHANGED driverVars /\ UNCHANGED circVars)
    \/ (\E t \in 1..Len(futures) : WorkerStart(t) /\ UNCHANGED driverVars /\ UNCHANGED circVars)
    \/ (\E t \in 1..Len(futures) : WorkerFinish(t) /\ UNCHANGED driverVars /\ UNCHANGED circVars)
    \/ (CollectSig /\ UNCHANGED driverVars /\ UNCHANGED circVars)
    \/ (CollectBkg /\ UNCHANGED driverVars /\ UNCHANGED circVars)
    \/ (PoolExit /\ UNCHANGED driverVars /\ UNCHANGED circVars)
    \/ (Persist /\ UNCHANGED driverVars /\ UNCHANGED circVars)

SpecTest == InitTest /\ [][NextTest]_vars

-----------------------------------------------------------------------------
(* Properties of the driver script.                                        *)
ExplicitTypeError == "TypeError: Given computation run does not exist!"

Implemented == {"expr_ent_vs_circ", "expr_vs_qubits"}

Terminated == pc \in {"done", "raised"}

\* The circuit a label names.
LabelReps(label) ==
    CASE label = "L=1" -> 1 [] label = "L=2" -> 2 [] label = "L=3" -> 3
      [] label = "L=4" -> 4 [] label = "L=5" -> 5 [] label = "L=6" -> 6
      [] OTHER -> 0

NamedBy(label, c) ==
    CASE label = "NE_0" -> c.kind = "no_ent" /\ c.type = 0
      [] label = "NE_1" -> c.kind = "no_ent" /\ c.type = 1
      [] label = "FE"   -> c.kind = "all" /\ c.reps = 3
      [] OTHER          -> c.kind = "chain" /\ c.reps = LabelReps(label)

IsEstimatorCall(e) == e.op \in {"ent", "expr"}

\* C1: once prepare_circs has returned, the closure at every position 0..8 is
\* the circuit its label names, so every estimator call made for the row of a
\* label is made on the circuit that label names.
C1_LabelsNameCircuits ==
    pc # "start" =>
        /\ Len(circuit_list) = 9
        /\ Len(circuit_labels) = 9
        /\ \A j \in 1..Len(circuit_list) : NamedBy(circuit_labels[j], circuit_list[j])
        /\ args.compute = "expr_ent_vs_circ" =>
              \A j \in 1..Len(log) :
                  IsEstimatorCall(log[j]) =>
                      NamedBy(circuit_labels[log[j].i + 1], log[j].circuit)

ExactlyZero(stat) == ~stat.nan /\ stat.num = 0

\* C2: the entanglement estimator is never called on a no-entanglement
\* circuit, and the row of every no-entanglement circuit (labels NE_0, NE_1)
\* has ent exactly 0 and ent_err 0, for every qubit count and every n_exp.
C2_NoEntNeverEstimated ==
    args.compute = "expr_ent_vs_circ" =>
        /\ \A j \in 1..Len(log) :
              log[j].op = "ent" =>
                  /\ log[j].circuit.kind # "no_ent"
                  /\ circuit_labels[log[j].i + 1] \notin {"NE_0", "NE_1"}
        /\ \A j \in 1..Len(df) :
              (circuit_list[j].kind = "no_ent" \/ df[j].circuit \in {"NE_0", "NE_1"}) =>
                  ExactlyZero(df[j].ent) /\ ExactlyZero(df[j].ent_err)

C2_Witness ==
    /\ pc = "done"
    /\ args.compute = "expr_ent_vs_circ"
    /\ Len(csv) = 1
    /\ csv[1].table[1].circuit = "NE_0" /\ ExactlyZero(csv[1].table[1].ent)
    /\ csv[1].table[2].circuit = "NE_1" /\ ExactlyZero(csv[1].table[2].ent)
    /\ \E j \in 1..Len(log) : log[j].op = "ent"

\* The values the expressibility estimator returned during iteration at.
RECURSIVE ValsAt(_, _)
ValsAt(events, at) ==
    IF events = <<>> THEN <<>>
    ELSE (IF Head(events).op = "expr" /\ Head(events).i = at
          THEN <<Head(events).val>> ELSE <<>>) \o ValsAt(Tail(events), at)

NonNegative(stat) == ~stat.nan /\ stat.num >= 0 /\ stat.den > 0

SweptCounts == IF args.data_dependent THEN <<4, 8, 16>> ELSE [j \in 1..9 |-> j]

\* The table of a completed run has one row per label (mode expr_ent_vs_circ)
\* or per swept qubit count (mode expr_vs_qubits), in order, each row holding
\* the statistics of its own runs.
TableRows(t) ==
    /\ args.compute = "expr_ent_vs_circ" =>
          /\ Len(t) = 9
          /\ \A j \in 1..Len(t) :
                /\ t[j].circuit = circuit_labels[j]
                /\ t[j].expr = NpMean(ValsAt(log, j - 1))
    /\ args.compute = "expr_vs_qubits" =>
          /\ Len(t) = Len(SweptCounts)
          /\ \A j \in 1..Len(t) :
                /\ t[j].expr = NpMean(ValsAt(log, j - 1))
                /\ \A e \in 1..Len(log) :
                      (log[e].op = "expr" /\ log[e].i = j - 1) =>
                          log[e].circuit.nqubits = SweptCounts[j]

TableErrs(t) ==
    /\ \A j \in 1..Len(t) : NonNegative(t[j].expr_err)
    /\ args.compute = "expr_ent_vs_circ" => \A j \in 1..Len(t) : NonNegative(t[j].ent_err)

\* C3 as stated: when a run completes the CSV holds exactly one row per
\* label / per swept qubit count, in order, and every standard-deviation
\* column is non-negative, for every n_exp the command line accepts.
C3_TableAsStated ==
    pc = "done" =>
        /\ Len(csv) = 1
        /\ TableRows(csv[1].table)
        /\ TableErrs(csv[1].table)

\* C3 amended: the rows are as stated for every n_exp; the standard-deviation
\* columns are non-negative when n_exp >= 1, and expr_err is NaN (the std of
\* an empty list) when n_exp <= 0.
C3_TableAmended ==
    pc = "done" =>
        /\ Len(csv) = 1
        /\ csv[1].table = result.table
        /\ TableRows(csv[1].table)
        /\ args.n_exp >= 1 => TableErrs(csv[1].table)
        /\ args.n_exp <= 0 => \A j \in 1..Len(csv[1].table) : csv[1].table[j].expr_err.nan

C3_Witness ==
    /\ pc = "done"
    /\ args.compute = "expr_vs_qubits"
    /\ args.data_dependent
    /\ args.n_exp >= 2
    /\ Len(csv) = 1
    /\ Len(csv[1].table) = 3
    /\ \E j \in 1..3 : csv[1].table[j].expr_err.num > 0

\* Whether the data loading main asks for fails.
LoadFails ==
    /\ args.data_dependent
    /\ \/ ~args.data_path.given
       \/ \E j \in 1..Len(args.data_path.paths) : h5[args.data_path.paths[j]].st # "ok"

NothingComputed == log = <<>> /\ csv = <<>>

\* C4 as stated: main ends in the explicit TypeError exactly when --compute
\* has no handler; then no estimator was called and no CSV written; and an
\* implemented mode never ends in that error once its handler has returned.
C4_ExplicitErrorAsStated ==
    /\ Terminated => ((err = ExplicitTypeError) <=> (args.compute \notin Implemented))
    /\ err = ExplicitTypeError => NothingComputed
    /\ (pc \in {"returned", "done"} /\ args.compute \in Implemented) =>
          ~result.none /\ err # ExplicitTypeError

\* C4 amended: main ends in the explicit TypeError exactly when --compute has
\* no handler and the data loading that precedes the dispatch did not fail
\* (a failed load ends main in the loader's own exception instead).
C4_ExplicitErrorAmended ==
    /\ Terminated =>
          ((err = ExplicitTypeError) <=> (args.compute \notin Implemented /\ ~LoadFails))
    /\ (Terminated /\ LoadFails) => (err # "" /\ err # ExplicitTypeError /\ NothingComputed)
    /\ err = ExplicitTypeError => NothingComputed
    /\ (pc \in {"returned", "done"} /\ args.compute \in Implemented) =>
          ~result.none /\ err # ExplicitTypeError

C4_Witness ==
    /\ pc = "raised"
    /\ err = ExplicitTypeError
    /\ args.compute = "var_kernel_vs_circ"
    /\ args.data_dependent
    /\ data.kind = "list"

\* The calls and writes the claim prescribes for one circuit, then for all.
Shown(e) ==
    IF IsEstimatorCall(e) THEN <<e.op, e.i, e.circuit, e.n_params>> ELSE <<e.op, e.i>>

Times(n) == IF n < 0 THEN 0 ELSE n

PrescribedFor(at) ==
    LET c == circuit_list[at + 1]
    IN  (IF c.kind # "no_ent" THEN <<<<"ent", at, c, 2 * args.n_qubits>>>> ELSE <<>>)
        \o [r \in 1..Times(args.n_exp) |-> <<"expr", at, c, 2 * args.n_qubits>>]
        \o <<<<"row", at>>>>

Prescribed ==
    Flatten([j \in 1..Len(circuit_list) |-> PrescribedFor(j - 1)]) \o <<<<"csv", 0>>>>

IsPrefix(s, t) == Len(s) <= Len(t) /\ \A j \in 1..Len(s) : s[j] = t[j]

\* C9: compute_expr_ent_vs_circuit works through the circuits in list order;
\* for each it calls the entanglement estimator at most once (once for an
\* entangling circuit), then the expressibility estimator exactly n_exp times
\* on the same circuit with 2*n_qubits parameters, then appends the row; the
\* CSV is written once, after the last row.
C9_CallOrder ==
    (args.compute = "expr_ent_vs_circ" /\ pc # "start") =>
        /\ IsPrefix([j \in 1..Len(log) |-> Shown(log[j])], Prescribed)
        /\ pc \in {"returned", "done"} => Len(log) = Len(Prescribed)
        /\ Len(csv) = (IF pc \in {"returned", "done"} THEN 1 ELSE 0)
        /\ Len(df) = Cardinality({j \in 1..Len(log) : log[j].op = "row"})

C9_Witness ==
    /\ pc = "done"
    /\ args.compute = "expr_ent_vs_circ"
    /\ args.n_exp >= 2
    /\ Len(log) = 9 * (args.n_exp + 1) + 7 + 1

-----------------------------------------------------------------------------
(* Properties of the circuit constructors.                                 *)
ParamsRead(g) ==
    {a.ix : a \in {b \in {g.theta, g.phi, g.lam} : b.k = "x"}}

IsRotationOn(g, qubit) ==
    g.op = "u" /\ g.q = qubit /\ ParamsRead(g) = {2 * qubit, 2 * qubit + 1}

\* The qubit pairs the claim gives each variant.
PairsOf(c) ==
    CASE c.kind = "no_ent" -> {}
      [] c.kind = "chain"  -> {<<a, a + 1>> : a \in 0..(c.nqubits - 2)}
      [] c.kind = "all"    -> {<<a, b>> \in (0..(c.nqubits - 1)) \X (0..(c.nqubits - 1)) : a < b}

NoEntangling(gs) == SelectSeq(gs, LAMBDA g : g.op # "cx")

\* One repetition as the claim describes it: a rotation per qubit, the
\* entangling operations of the variant, a rotation per qubit.
IsFullRepetition(block, c) ==
    LET n == c.nqubits
        m == Cardinality(PairsOf(c))
    IN  /\ Len(block) = 2 * n + m
        /\ \A q \in 1..n : IsRotationOn(block[q], q - 1)
        /\ \A e \in 1..m : block[n + e].op = "cx"
        /\ {<<block[n + e].q, block[n + e].t>> : e \in 1..m} = PairsOf(c)
        /\ \A q \in 1..n : IsRotationOn(block[n + m + q], q - 1)

IsFirstLayerOnly(block, c) ==
    /\ Len(block) = c.nqubits
    /\ \A q \in 1..c.nqubits : IsRotationOn(block[q], q - 1)

Block(gs, size, r) == SubSeq(gs, (r - 1) * size + 1, r * size)

ReadsOnlyItsParams(gs, c) ==
    \A j \in 1..Len(gs) : ParamsRead(gs[j]) \subseteq 0..(2 * c.nqubits - 1)

FullShape(gs, c) ==
    LET size == 2 * c.nqubits + Cardinality(PairsOf(c))
    IN  /\ Len(gs) = c.reps * size
        /\ \A r \in 1..c.reps : IsFullRepetition(Block(gs, size, r), c)
        /\ NoEntangling(gs) = NoEntangling(u_dense_encoding(c.nqubits, c.reps))
        /\ NoEntangling(gs) = NoEntangling(u_dense_encoding_all(c.nqubits, c.reps))
        /\ NoEntangling(gs) = u_dense_encoding_no_ent(c.nqubits, c.reps, 0)
        /\ ReadsOnlyItsParams(gs, c)

\* C10 as stated: every constructor, u_dense_encoding_no_ent of either type
\* included, emits r repetitions of first layer, entangling operations,
\* second layer; without the entangling operations all variants coincide.
C10_SharedStructureAsStated ==
    cpc = "returned" => FullShape(gates, circ)

SingleLayered(c) == c.kind = "no_ent" /\ c.type # 0

\* C10 amended: the above holds for u_dense_encoding_no_ent with type = 0,
\* u_dense_encoding and u_dense_encoding_all; u_dense_encoding_no_ent with
\* type # 0 emits the first layer only in each repetition.
C10_SharedStructureAmended ==
    cpc = "returned" =>
        /\ gates = Call(circ)
        /\ ~SingleLayered(circ) => FullShape(gates, circ)
        /\ SingleLayered(circ) =>
              /\ Len(gates) = circ.reps * circ.nqubits
              /\ \A r \in 1..circ.reps :
                    IsFirstLayerOnly(Block(gates, circ.nqubits, r), circ)
              /\ ReadsOnlyItsParams(gates, circ)

C10_Witness ==
    /\ cpc = "returned"
    /\ circ.kind = "all"
    /\ circ.nqubits >= 3
    /\ circ.reps >= 2
    /\ Cardinality({j \in 1..Len(gates) : gates[j].op = "cx"}) =
          circ.reps * ((circ.nqubits * (circ.nqubits - 1)) \div 2)

-----------------------------------------------------------------------------
(* Properties of the data loader.                                          *)
\* x*pi + pi for a raw element x = k/Den.
Affine(x) == <<0, x[1] + Den>>

\* (y - pi)/pi
InverseAffine(y) == Tail(PolyAdd(y, <<0, 0 - Den>>))

\* x in [0, 1) for a raw element; y in [0, 2*pi) for a multiple of pi.
InUnitInterval(x) == Len(x) = 1 /\ 0 <= x[1] /\ x[1] < Den
InTwoPi(y) == Len(y) = 2 /\ y[1] = 0 /\ 0 <= y[2] /\ y[2] < 2 * Den

\* The datasets get_data returned, as a list.
Loaded == IF data.kind = "array" THEN <<data.val>> ELSE data.val

RawOf(j) == h5[args.data_path.paths[j]].arr

\* C8: every element of every loaded dataset is x*pi + pi of the raw element
\* at its place, (y - pi)/pi gives the raw element back, the result lies in
\* [0, 2*pi) when the raw element lies in [0, 1), and the number of datasets
\* and their 2-D shapes are those of the files.
C8_AffineRescaling ==
    (pc = "dispatch" /\ args.data_dependent) =>
        /\ Len(Loaded) = Len(args.data_path.paths)
        /\ \A j \in 1..Len(Loaded) :
              /\ Len(Loaded[j]) = Len(RawOf(j))
              /\ \A n \in 1..Len(RawOf(j)) :
                    LET a == Len(RawOf(j)[n])
                        b == Len(RawOf(j)[n][1])
                    IN  /\ Len(Loaded[j][n]) = a * b
                        /\ \A x \in 1..a, y \in 1..b :
                              LET raw == RawOf(j)[n][x][y]
                                  out == Loaded[j][n][(x - 1) * b + y]
                              IN  /\ out = Affine(raw)
                                  /\ PolyAdd(out, <<0, 0 - Den>>)[1] = 0
                                  /\ InverseAffine(out) = raw
                                  /\ InUnitInterval(raw) => InTwoPi(out)

C8_Witness ==
    /\ pc = "dispatch"
    /\ args.data_dependent
    /\ data.kind = "list"
    /\ Len(data.val) >= 2
    /\ Len(data.val[2][1]) >= 4
    /\ \E n \in 1..Len(data.val[2]), c \in 1..Len(data.val[2][1]) :
          /\ InTwoPi(data.val[2][n][c])
          /\ InUnitInterval(RawOf(2)[n][((c - 1) \div Len(RawOf(2)[1][1])) + 1]
                                        [((c - 1) % Len(RawOf(2)[1][1])) + 1])
    /\ \E n \in 1..Len(data.val[2]), c \in 1..Len(data.val[2][1]) :
          ~InTwoPi(data.val[2][n][c])

-----------------------------------------------------------------------------
C6_SingleFoldRun ==
    (targs.kfolds = 1 /\ ~targs.mod_quantum_instance /\ tpc # "start") =>
        /\ model.backend_config = "trained"
        /\ model.quantum_instance = "trained"
        /\ model.backend = "trained"
        /\ model.quantum_kernel = "trained"
        /\ futures = <<>>
        /\ plots = <<>>
        /\ ncalls <= 1
        /\ tpc # "done" => files = <<>>
        /\ tpc = "done" =>
              /\ ncalls = 1
              /\ Len(files) = 2
              /\ files[1].name = <<targs.model, "scores_n", targs.ntest, "_k", 1, ".npy">>
              /\ Len(files[1].content) = Len(test_loader[1])
              /\ files[1].content = decision_function(test_features)
              /\ files[2].name = <<targs.model, "kernel_matrix_test.npy">>

C6_Witness ==
    /\ tpc = "done"
    /\ targs.kfolds = 1
    /\ ~targs.mod_quantum_instance
    /\ Len(files) = 2
    /\ Len(files[1].content) >= 4
    /\ perm = "reversed"

\* C7: in the multi-fold path a failed scoring task is never run again, main
\* cannot complete nor stop anywhere but in the exception, and no output is
\* written, whichever fold failed and in whatever order the tasks finished.
C7_FailureAborts ==
    targs.kfolds > 1 =>
        /\ \A t \in 1..Len(futures) : futures[t].runs <= 1
        /\ Failed # {} =>
              /\ files = <<>>
              /\ plots = <<>>
              /\ tpc \notin {"persist", "done"}
              /\ tpc # "raised" => ENABLED NextTest
        /\ (tpc = "raised" /\ terr = "get_scores") => (Failed # {} /\ files = <<>>)

\* the run ended in the exception of a background fold that had finished
\* before an earlier task
C7_Witness ==
    /\ tpc = "raised"
    /\ terr = "get_scores"
    /\ targs.kfolds >= 2
    /\ \E t \in Failed : t > Len(sig_fold)
    /\ reordered
    /\ files = <<>>

-----------------------------------------------------------------------------
(* The qubit sweep of expr_vs_nqubits.                                     *)
\* The 2-D dataset loaded from the j-th data path of the command line.
WholeDataset(j) == RescaleDataset(Reshape2D(h5[args.data_path.paths[j]].arr))

DataFor(j) ==
    IF ~args.data_dependent THEN [kind |-> "none", val |-> <<>>]
    ELSE IF j <= Len(args.data_path.paths)
    THEN [kind |-> "item", val |-> WholeDataset(j)]
    ELSE [kind |-> "absent", val |-> <<>>]

SweepShown(e) ==
    IF e.op = "expr"
    THEN <<e.op, e.i, e.circuit, e.n_params, e.n_shots, e.data>>
    ELSE <<e.op, e.i>>

SweepFor(j) ==
    LET n == SweptCounts[j]
    IN  [r \in 1..Times(args.n_exp) |->
            <<"expr", j - 1, Closure("chain", n, 3, 0), 2 * n, args.n_shots, DataFor(j)>>]
        \o <<<<"row", j - 1>>>>

SweepPrescribed ==
    Flatten([j \in 1..Len(SweptCounts) |-> SweepFor(j)]) \o <<<<"csv", 0>>>>

SweepAsPrescribed ==
    /\ IsPrefix([j \in 1..Len(log) |-> SweepShown(log[j])], SweepPrescribed)
    /\ pc \in {"returned", "done", "raised"} => Len(log) = Len(SweepPrescribed)
    /\ err = ""

SweepStarted == args.compute = "expr_vs_qubits" /\ pc \notin {"start", "load"} /\ ~LoadFails

====
